---------------------------- MODULE Spec2Model ----------------------------
(***************************************************************************)
(* Model of plot_results.py: the report generator that loads                *)
(* benchmark-results.csv into a table, renders four figures into plots/     *)
(* and prints a summary.                                                    *)
(*                                                                          *)
(* The table is a sequence of trial records.  Floating-point values are     *)
(* kept as exact fractions <<numerator, denominator>> in lowest terms; NaN  *)
(* is <<0, 0>>.  A standard deviation is kept as its square (the sample     *)
(* variance), which is again a fraction.                                    *)
(***************************************************************************)
EXTENDS Integers, Sequences, FiniteSets

VARIABLES
    pc,         \* position of the driver (main, or the calling harness)
    csv,        \* benchmark-results.csv: [exists, rows]
    observed,   \* pandas' default for groupby(observed=...) on a categorical key
    df,         \* the DataFrame bound to df: [rows, hasRange, range]
    loaded,     \* the DataFrame as load_data returned it (history)
    plotsPath,  \* what the path "plots" is on disk: "absent", "dir" or "file"
    files,      \* the files in plots/: path -> [run, fig]
    fig,        \* the current matplotlib figure: [op, data]
    stdout,     \* the lines printed by the current process (or call)
    error,      \* the unhandled exception that ended the process, or "none"
    runs        \* the number of the current invocation of the script

vars == <<pc, csv, observed, df, loaded, plotsPath, files, fig, stdout, error, runs>>

-----------------------------------------------------------------------------
(* Exact fractions standing for pandas' float64 values                     *)

NaN == <<0, 0>>

IsNaN(q) == q[2] = 0

Abs(i) == IF i < 0 THEN -i ELSE i

RECURSIVE GCD(_, _)
GCD(a, b) == IF b = 0 THEN a ELSE GCD(b, a % b)

\* n/d in lowest terms with a positive denominator; NaN when d = 0 (0/0)
Rat(n, d) ==
    IF d = 0 THEN NaN
    ELSE LET g == GCD(Abs(n), Abs(d))
             s == IF d < 0 THEN -1 ELSE 1
         IN  <<s * (n \div g), s * (d \div g)>>

FromInt(i) == <<i, 1>>

RatAdd(p, q) == IF IsNaN(p) \/ IsNaN(q) THEN NaN
                ELSE Rat(p[1] * q[2] + q[1] * p[2], p[2] * q[2])

RatSub(p, q) == IF IsNaN(p) \/ IsNaN(q) THEN NaN
                ELSE Rat(p[1] * q[2] - q[1] * p[2], p[2] * q[2])

RatMul(p, q) == IF IsNaN(p) \/ IsNaN(q) THEN NaN
                ELSE Rat(p[1] * q[1], p[2] * q[2])

RatDiv(p, q) == IF IsNaN(p) \/ IsNaN(q) THEN NaN
                ELSE Rat(p[1] * q[2], p[2] * q[1])

\* comparisons with NaN are false, as in IEEE 754
RatEq(p, q) == ~IsNaN(p) /\ ~IsNaN(q) /\ p[1] * q[2] = q[1] * p[2]

RatGt(p, q) == ~IsNaN(p) /\ ~IsNaN(q) /\ p[1] * q[2] > q[1] * p[2]

\* a bool column read as numbers: True is 1.0, False is 0.0
AsNum(b) == IF b THEN FromInt(1) ELSE FromInt(0)

-----------------------------------------------------------------------------
(* Sequence helpers standing for pandas' column operations                 *)

RECURSIVE SumQ(_)
SumQ(s) == IF s = <<>> THEN FromInt(0) ELSE RatAdd(Head(s), SumQ(Tail(s)))

\* Series.mean(): NaN for an empty series
Mean(s) == IF s = <<>> THEN NaN ELSE RatDiv(SumQ(s), FromInt(Len(s)))

\* the square of Series.std() (ddof = 1): NaN for fewer than two values
Std2(s) ==
    IF Len(s) < 2 THEN NaN
    ELSE LET m == Mean(s)
             d == [i \in 1..Len(s) |-> RatMul(RatSub(s[i], m), RatSub(s[i], m))]
         IN  RatDiv(SumQ(d), FromInt(Len(s) - 1))

\* Series.sum() of a bool column: the number of True
RECURSIVE CountTrue(_)
CountTrue(s) == IF s = <<>> THEN 0
                ELSE (IF Head(s) THEN 1 ELSE 0) + CountTrue(Tail(s))

Range(s) == {s[i] : i \in 1..Len(s)}

Min(S) == CHOOSE x \in S : \A y \in S : x <= y

\* the keys of a groupby, ascending (groupby sorts its keys)
RECURSIVE Sorted(_)
Sorted(S) == IF S = {} THEN <<>>
             ELSE LET m == Min(S) IN <<m>> \o Sorted(S \ {m})

\* Series.unique(): the distinct values in order of first appearance
RECURSIVE Unique(_)
Unique(s) ==
    IF s = <<>> THEN <<>>
    ELSE LET u == Unique(SubSeq(s, 1, Len(s) - 1))
             x == s[Len(s)]
         IN  IF x \in Range(u) THEN u ELSE Append(u, x)

-----------------------------------------------------------------------------
(* The aggregate views, one per plotting function                          *)

Column(rows, name) == [i \in 1..Len(rows) |-> rows[i][name]]

SuccessColumn(rows) == [i \in 1..Len(rows) |-> AsNum(rows[i].success)]

Percent(q) == RatMul(q, FromInt(100))

\* faulty variant: the rate is left as a fraction of 1, not scaled to a percentage
success_by_n_unscaled(d) ==
    LET keys == Sorted(Range(Column(d.rows, "N")))
        Group(n) == SelectSeq(d.rows, LAMBDA r : r.N = n)
    IN  [k \in 1..Len(keys) |->
            [N            |-> keys[k],
             success_rate |-> Mean(SuccessColumn(Group(keys[k]))),
             std2         |-> Std2(SuccessColumn(Group(keys[k]))),
             count        |-> Len(Group(keys[k]))]]

\* faulty variant: 'sum' in place of 'count' counts the successful records only
success_by_n_sum(d) ==
    LET keys == Sorted(Range(Column(d.rows, "N")))
        Group(n) == SelectSeq(d.rows, LAMBDA r : r.N = n)
    IN  [k \in 1..Len(keys) |->
            [N            |-> keys[k],
             success_rate |-> Percent(Mean(SuccessColumn(Group(keys[k])))),
             std2         |-> RatMul(Std2(SuccessColumn(Group(keys[k]))), FromInt(10000)),
             count        |-> CountTrue(Column(Group(keys[k]), "success"))]]

\* plot_success_vs_n: df.groupby('N').agg({'success': ['mean', 'std', 'count']}),
\* success_rate and std scaled by 100 (std is kept squared: by 100 * 100)
success_by_n(d) ==
    LET keys == Sorted(Range(Column(d.rows, "N")))
        Group(n) == SelectSeq(d.rows, LAMBDA r : r.N = n)
    IN  [k \in 1..Len(keys) |->
            [N            |-> keys[k],
             success_rate |-> Percent(Mean(SuccessColumn(Group(keys[k])))),
             std2         |-> RatMul(Std2(SuccessColumn(Group(keys[k]))), FromInt(10000)),
             count        |-> Len(Group(keys[k]))]]

\* plot_success_vs_phi_divisors:
\* df.groupby('phi_divisors').agg({'success': 'mean', 'N': 'mean'}), success scaled by 100
SuccessByPhiDivisors(d) ==
    LET keys == Sorted(Range(Column(d.rows, "phi_divisors")))
        Group(k) == SelectSeq(d.rows, LAMBDA r : r.phi_divisors = k)
    IN  [k \in 1..Len(keys) |->
            [phi_divisors |-> keys[k],
             success      |-> Percent(Mean(SuccessColumn(Group(keys[k])))),
             N            |-> Mean([i \in 1..Len(Group(keys[k])) |->
                                        FromInt(Group(keys[k])[i].N)])]]

\* faulty variant: the filter on success is missing
success_df_unfiltered(d) ==
    [i \in 1..Len(d.rows) |->
        [N |-> d.rows[i].N, time_s |-> Rat(d.rows[i].time_ms, 1000)]]

\* success_df = df[df['success']].copy(); success_df['time_s'] = time_ms / 1000
success_df(d) ==
    LET kept == SelectSeq(d.rows, LAMBDA r : r.success)
    IN  [i \in 1..Len(kept) |->
            [N |-> kept[i].N, time_s |-> Rat(kept[i].time_ms, 1000)]]

\* plot_time_vs_n: success_df.groupby('N').agg({'time_s': ['mean', 'std']})
TimeByN(d) ==
    LET sdf  == success_df(d)
        keys == Sorted(Range(Column(sdf, "N")))
        Group(n) == Column(SelectSeq(sdf, LAMBDA r : r.N = n), "time_s")
    IN  [k \in 1..Len(keys) |->
            [N         |-> keys[k],
             mean_time |-> Mean(Group(keys[k])),
             std_time2 |-> Std2(Group(keys[k]))]]

bins == <<0, 300, 500, 700, 900, 1200>>

labels == <<"100-300", "300-500", "500-700", "700-900", "900-1200">>

NoRange == "NaN"

\* faulty variant: right=False, the intervals [bins[i], bins[i+1])
CutLeftClosed(n) ==
    IF \E i \in 1..Len(labels) : bins[i] <= n /\ n < bins[i + 1]
    THEN labels[CHOOSE i \in 1..Len(labels) : bins[i] <= n /\ n < bins[i + 1]]
    ELSE NoRange

\* pd.cut(x, bins=bins, labels=labels): right-closed intervals (bins[i], bins[i+1]],
\* the lowest edge not included; a value in no interval is NaN
Cut(n) ==
    IF \E i \in 1..Len(labels) : bins[i] < n /\ n <= bins[i + 1]
    THEN labels[CHOOSE i \in 1..Len(labels) : bins[i] < n /\ n <= bins[i + 1]]
    ELSE NoRange

\* faulty variant: the rows outside every range are dropped from the caller's table too
AssignRangeDropNa(d) ==
    LET kept == SelectSeq(d.rows, LAMBDA r : Cut(r.N) # NoRange)
    IN  [d EXCEPT !.rows = kept, !.hasRange = TRUE,
                  !.range = [i \in 1..Len(kept) |-> Cut(kept[i].N)]]

\* df['range'] = pd.cut(df['N'], bins=bins, labels=labels): assigns into the caller's table
AssignRange(d) ==
    [d EXCEPT !.hasRange = TRUE, !.range = [i \in 1..Len(d.rows) |-> Cut(d.rows[i].N)]]

\* the rows of d whose range is label: df[df['range'] == label]
RangeDf(d, label) ==
    LET idx == SelectSeq([i \in 1..Len(d.rows) |-> i], LAMBDA i : d.range[i] = label)
    IN  [k \in 1..Len(idx) |-> d.rows[idx[k]]]

\* faulty variant: >= 50 in place of > 50
BarColorFrom50(rate) ==
    IF RatEq(rate, FromInt(100)) THEN "green"
    ELSE IF RatGt(rate, FromInt(50)) \/ RatEq(rate, FromInt(50)) THEN "orange"
    ELSE "red"

\* bar.set_color: green for 100, orange above 50, red otherwise (NaN compares false)
BarColor(rate) ==
    IF RatEq(rate, FromInt(100)) THEN "green"
    ELSE IF RatGt(rate, FromInt(50)) THEN "orange"
    ELSE "red"

\* plot_success_by_range on a table that carries the range column:
\* df.groupby('range').agg({'success': ['mean', 'count']}), one bar per group.
\* With observed = FALSE every category is a group, an empty one with mean NaN
\* and count 0; with observed = TRUE only the categories that occur.
range_stats(d, obs) ==
    LET cats == SelectSeq(labels, LAMBDA l : ~obs \/ RangeDf(d, l) # <<>>)
    IN  [k \in 1..Len(cats) |->
            LET rate == Percent(Mean(SuccessColumn(RangeDf(d, cats[k]))))
            IN  [range        |-> cats[k],
                 success_rate |-> rate,
                 count        |-> Len(RangeDf(d, cats[k])),
                 color        |-> BarColor(rate)]]

-----------------------------------------------------------------------------
(* The printed summary                                                      *)

\* the nearest integer to q, a tie going to the even one (how Python rounds
\* when it formats a float)
RoundHalfEven(q) ==
    LET fl  == q[1] \div q[2]
        rem == q[1] - fl * q[2]
    IN  IF 2 * rem < q[2] THEN fl
        ELSE IF 2 * rem > q[2] THEN fl + 1
        ELSE IF fl % 2 = 0 THEN fl ELSE fl + 1

\* f"{q:.0f}" and f"{q:.1f}": the number is printed rounded to `places` decimals.
\* The text is kept as <<places, the rounded value in units of 10^-places>>;
\* the text "nan" is <<-1, 0>>.
Format(q, places) ==
    IF IsNaN(q) THEN <<-1, 0>>
    ELSE <<places, RoundHalfEven(RatMul(q, FromInt(IF places = 1 THEN 10 ELSE 1)))>>

\* lines 159-166: the overall block
OverallLine(d) ==
    LET total_trials  == Len(d.rows)
        total_success == CountTrue(Column(d.rows, "success"))
    IN  [kind      |-> "overall",
         trials    |-> total_trials,
         successes |-> total_success,
         rate      |-> Format(Percent(Rat(total_success, total_trials)), 1)]

\* lines 173-180: one line per label whose range holds a record, in label order
RangeLines(d) ==
    LET shown == SelectSeq(labels, LAMBDA l : Len(RangeDf(d, l)) > 0)
    IN  [k \in 1..Len(shown) |->
            LET range_df == RangeDf(d, shown[k])
            IN  [kind      |-> "range",
                 label     |-> shown[k],
                 successes |-> CountTrue(Column(range_df, "success")),
                 count     |-> Len(range_df),
                 rate      |-> Format(Percent(Mean(SuccessColumn(range_df))), 0)]]

\* lines 182-185: the mean time_ms of the successful records, in seconds
AvgTimeLine(d) ==
    LET kept     == SelectSeq(d.rows, LAMBDA r : r.success)
        avg_time == RatDiv(Mean([i \in 1..Len(kept) |->
                                        FromInt(kept[i].time_ms)]),
                             FromInt(1000))
    IN  [kind |-> "avg_time", value |-> Format(avg_time, 1)]

examples == <<437, 551>>

\* faulty variant: phi and phi_divisors are read from the first row of the whole table
ExampleLinesFirstRow(d) ==
    LET shown == SelectSeq(examples,
                           LAMBDA n : Len(SelectSeq(d.rows, LAMBDA r : r.N = n)) > 0)
    IN  [k \in 1..Len(shown) |->
            LET n_df == SelectSeq(d.rows, LAMBDA r : r.N = shown[k])
            IN  [kind         |-> "example",
                 N            |-> shown[k],
                 phi          |-> d.rows[1].phi,
                 phi_divisors |-> d.rows[1].phi_divisors,
                 rate         |-> Format(Percent(Mean(SuccessColumn(n_df))), 0)]]

\* lines 189-195: a line for each of 437 and 551 that the table holds
ExampleLines(d) ==
    LET shown == SelectSeq(examples,
                           LAMBDA n : Len(SelectSeq(d.rows, LAMBDA r : r.N = n)) > 0)
    IN  [k \in 1..Len(shown) |->
            LET n_df == SelectSeq(d.rows, LAMBDA r : r.N = shown[k])
            IN  [kind         |-> "example",
                 N            |-> shown[k],
                 phi          |-> n_df[1].phi,
                 phi_divisors |-> n_df[1].phi_divisors,
                 rate         |-> Format(Percent(Mean(SuccessColumn(n_df))), 0)]]

\* everything generate_summary_stats prints, given the table with its range column
SummaryLines(d) ==
    <<[kind |-> "summary_title"], OverallLine(d)>>
        \o RangeLines(d) \o <<AvgTimeLine(d)>> \o ExampleLines(d)

-----------------------------------------------------------------------------
(* The process: its table, the plots/ directory and what it prints          *)

NoDf == [rows |-> <<>>, hasRange |-> FALSE, range |-> <<>>]

NoFig == [op |-> "none", data |-> <<>>]

\* the columns of a table: those of the CSV, and range once it was assigned
Columns(d) ==
    {"N", "phi", "phi_divisors", "strategy", "success", "time_ms"}
        \cup (IF d.hasRange THEN {"range"} ELSE {})

\* faulty variant: mkdir without exist_ok raises whenever the path exists
MkdirRaisesIfExists(path) == path # "absent"

\* Path(output_dir).mkdir(exist_ok=True) raises FileExistsError only when the
\* path exists and is not a directory
MkdirRaises(path) == path = "file"

\* faulty variant: the exception is caught and the run goes on to the summary
RaiseSwallowed(exc) ==
    /\ pc' = "summary"
    /\ error' = exc

\* an unhandled exception ends the process where it is raised
Raise(exc) ==
    /\ pc' = "failed"
    /\ error' = exc

\* the path savefig writes: the fixed name under output_dir
SaveAs(path) == path

\* plt.savefig(path) then print("Saved: path"): the write either succeeds, and
\* the image at that path is replaced, or raises OSError and leaves no image
Savefig(path, figure, out, ret) ==
    \E written \in BOOLEAN :
        IF written
        THEN /\ files' = [p \in DOMAIN files \cup {SaveAs(path)} |->
                            IF p = SaveAs(path) THEN [run |-> runs, fig |-> figure]
                            ELSE files[p]]
             /\ stdout' = Append(out, [kind |-> "saved", path |-> SaveAs(path)])
             /\ pc' = ret
             /\ error' = error
        ELSE /\ files' = files
             /\ stdout' = out
             /\ Raise("OSError")

\* the shape shared by the four plotting functions: mkdir, aggregate, draw, save.
\* newdf is the caller's table as the function leaves it.
Plot(op, path, newdf, data, out, ret) ==
    IF MkdirRaises(plotsPath)
    THEN /\ Raise("FileExistsError")
         /\ stdout' = out
         /\ UNCHANGED <<csv, observed, df, loaded, plotsPath, files, fig, runs>>
    ELSE /\ plotsPath' = "dir"
         /\ df' = newdf
         /\ fig' = [op |-> op, data |-> data]
         /\ Savefig(path, [op |-> op, data |-> data], out, ret)
         /\ UNCHANGED <<csv, observed, loaded, runs>>

plot_success_vs_n(out, ret) ==
    Plot("success_vs_n", "plots/success_vs_n.png", df, success_by_n(df), out, ret)

plot_success_vs_phi_divisors(out, ret) ==
    Plot("success_vs_phi_divisors", "plots/success_vs_phi_divisors.png", df,
         SuccessByPhiDivisors(df), out, ret)

plot_time_vs_n(out, ret) ==
    Plot("time_vs_n", "plots/time_vs_n.png", df, TimeByN(df), out, ret)

plot_success_by_range(out, ret) ==
    Plot("success_by_range", "plots/success_by_range.png", AssignRange(df),
         range_stats(AssignRange(df), observed), out, ret)

generate_summary_stats(out, ret) ==
    /\ df' = AssignRange(df)
    /\ stdout' = out \o SummaryLines(AssignRange(df))
    /\ pc' = ret
    /\ UNCHANGED <<csv, observed, loaded, plotsPath, files, fig, error, runs>>

\* pd.read_csv raises FileNotFoundError when the file is missing
ReadCsvRaises == ~csv.exists

\* load_data: the table read from benchmark-results.csv
load_data == [NoDf EXCEPT !.rows = csv.rows]

-----------------------------------------------------------------------------
(* main(): the steps in program order                                       *)

\* lines 199-206: the table is loaded and described, or the run ends in load_data
MainLoad ==
    /\ pc = "start"
    /\ IF ReadCsvRaises
       THEN /\ Raise("FileNotFoundError")
            /\ stdout' = Append(stdout, [kind |-> "loading"])
            /\ UNCHANGED <<csv, observed, df, loaded, plotsPath, files, fig, runs>>
       ELSE /\ df' = load_data
            /\ loaded' = load_data
            /\ stdout' = stdout \o
                    <<[kind |-> "loading"],
                      [kind       |-> "loaded",
                       trials     |-> Len(load_data.rows),
                       unique     |-> Cardinality(Range(Column(load_data.rows, "N"))),
                       strategies |-> Unique(Column(load_data.rows, "strategy"))],
                      [kind |-> "generating"]>>
            /\ pc' = "success_vs_n"
            /\ UNCHANGED <<csv, observed, plotsPath, files, fig, error, runs>>

MainSuccessVsN ==
    /\ pc = "success_vs_n"
    /\ plot_success_vs_n(stdout, "success_vs_phi_divisors")

MainSuccessVsPhiDivisors ==
    /\ pc = "success_vs_phi_divisors"
    /\ plot_success_vs_phi_divisors(stdout, "time_vs_n")

MainTimeVsN ==
    /\ pc = "time_vs_n"
    /\ plot_time_vs_n(stdout, "success_by_range")

MainSuccessByRange ==
    /\ pc = "success_by_range"
    /\ plot_success_by_range(stdout, "summary")

MainSummary ==
    /\ pc = "summary"
    /\ generate_summary_stats(stdout, "banner")

MainBanner ==
    /\ pc = "banner"
    /\ stdout' = Append(stdout, [kind |-> "complete"])
    /\ pc' = "done"
    /\ UNCHANGED <<csv, observed, df, loaded, plotsPath, files, fig, error, runs>>

MaxRuns == 2

\* the script is invoked again, on the same CSV and the same plots/ directory
Rerun ==
    /\ pc \in {"done", "failed"}
    /\ runs < MaxRuns
    /\ runs' = runs + 1
    /\ pc' = "start"
    /\ df' = NoDf
    /\ loaded' = NoDf
    /\ fig' = NoFig
    /\ stdout' = <<>>
    /\ error' = "none"
    /\ UNCHANGED <<csv, observed, plotsPath, files>>

NextOnce ==
    \/ MainLoad
    \/ MainSuccessVsN
    \/ MainSuccessVsPhiDivisors
    \/ MainTimeVsN
    \/ MainSuccessByRange
    \/ MainSummary
    \/ MainBanner

Next == NextOnce \/ Rerun

-----------------------------------------------------------------------------
(* A caller that loads the table and then calls the five operations in any  *)
(* order, any number of times, reading what each call printed               *)

CallLoad ==
    /\ pc = "call_load"
    /\ IF ReadCsvRaises
       THEN /\ Raise("FileNotFoundError")
            /\ UNCHANGED <<csv, observed, df, loaded, plotsPath, files, fig, stdout, runs>>
       ELSE /\ df' = load_data
            /\ loaded' = load_data
            /\ pc' = "call"
            /\ UNCHANGED <<csv, observed, plotsPath, files, fig, stdout, error, runs>>

CallSuccessVsN ==
    /\ pc = "call"
    /\ plot_success_vs_n(<<>>, "call")

CallSuccessVsPhiDivisors ==
    /\ pc = "call"
    /\ plot_success_vs_phi_divisors(<<>>, "call")

CallTimeVsN ==
    /\ pc = "call"
    /\ plot_time_vs_n(<<>>, "call")

CallSuccessByRange ==
    /\ pc = "call"
    /\ plot_success_by_range(<<>>, "call")

CallSummary ==
    /\ pc = "call"
    /\ generate_summary_stats(<<>>, "call")

NextCalls ==
    \/ CallLoad
    \/ CallSuccessVsN
    \/ CallSuccessVsPhiDivisors
    \/ CallTimeVsN
    \/ CallSuccessByRange
    \/ CallSummary

-----------------------------------------------------------------------------
(* Inputs                                                                   *)

\* the CSV tables of 1..maxRows records drawn from Rows
Tables(Rows, maxRows) == UNION {[1..n -> Rows] : n \in 1..maxRows}

InitWith(Rows, maxRows, start) ==
    /\ pc = start
    /\ csv \in {[exists |-> FALSE, rows |-> <<>>]}
                \cup {[exists |-> TRUE, rows |-> t] : t \in Tables(Rows, maxRows)}
    /\ observed \in BOOLEAN
    /\ df = NoDf
    /\ loaded = NoDf
    /\ plotsPath \in {"absent", "dir", "file"}
    /\ files = [p \in {} |-> NoFig]
    /\ fig = NoFig
    /\ stdout = <<>>
    /\ error = "none"
    /\ runs = 1

MaxRows == 3

\* records of 400, 437 and 551 with the phi and divisor count of each
RunRows ==
    {[N |-> nn[1], phi |-> nn[2], phi_divisors |-> nn[3], strategy |-> "smooth",
      success |-> s, time_ms |-> IF s THEN 1000 ELSE 0] :
        nn \in {<<400, 160, 12>>, <<437, 396, 18>>, <<551, 504, 24>>}, s \in BOOLEAN}

Init == InitWith(RunRows, MaxRows, "start")

Spec == Init /\ [][Next]_vars

MaxStatRows == 3

\* records of 300 and 400, successful or not, that took 0 or 1000 ms
StatRows ==
    {[N |-> n, phi |-> 80, phi_divisors |-> 10, strategy |-> "smooth",
      success |-> s, time_ms |-> t] :
        n \in {300, 400}, s \in BOOLEAN, t \in {0, 1000}}

InitStats == InitWith(StatRows, MaxStatRows, "start")

SpecStats == InitStats /\ [][NextOnce]_vars

MaxBinRows == 2

\* records at, beside and outside the edges of the five ranges
BinRows ==
    {[N |-> n, phi |-> 80, phi_divisors |-> 10, strategy |-> "smooth",
      success |-> s, time_ms |-> 1000] :
        n \in {-5, 0, 1, 300, 301, 500, 700, 900, 1200, 1201}, s \in BOOLEAN}

InitBins == InitWith(BinRows, MaxBinRows, "start")

SpecBins == InitBins /\ [][NextOnce]_vars

MaxCallRows == 2

\* records inside and outside the ranges, for the caller of single operations
CallRows ==
    {[N |-> nn[1], phi |-> nn[2], phi_divisors |-> nn[3], strategy |-> "smooth",
      success |-> s, time_ms |-> IF s THEN 1000 ELSE 0] :
        nn \in {<<300, 80, 10>>, <<437, 396, 18>>, <<1201, 1200, 30>>}, s \in BOOLEAN}

InitCalls == InitWith(CallRows, MaxCallRows, "call_load")

SpecCalls == InitCalls /\ [][NextCalls]_vars

-----------------------------------------------------------------------------
(* Properties of a run of main()                                            *)

Order ==
    <<"plots/success_vs_n.png", "plots/success_vs_phi_divisors.png",
      "plots/time_vs_n.png", "plots/success_by_range.png">>

\* the images the current invocation has written
WrittenThisRun == {p \in DOMAIN files : files[p].run = runs}

IsPrefix(s, t) == Len(s) <= Len(t) /\ s = SubSeq(t, 1, Len(s))

\* the steps the current invocation has announced on stdout, in order
StepsPrinted ==
    LET steps == SelectSeq(stdout,
                    LAMBDA l : l.kind \in {"loaded", "saved", "summary_title", "complete"})
    IN  [i \in 1..Len(steps) |->
            IF steps[i].kind = "saved" THEN steps[i].path ELSE steps[i].kind]

SummaryDone == pc \in {"banner", "done"}

\* C1: none of the four plotting operations nor generate_summary_stats changes
\* the loaded table: its columns and its rows stay those load_data returned.
C1_TableImmutable ==
    /\ Columns(df) = Columns(loaded)
    /\ df.rows = loaded.rows

\* C2: a run announces its steps in the one order load, the four images, the
\* summary, the banner; the images it has written are a prefix of the four in
\* that order (none when load failed) and are the ones it announced; the
\* summary and the banner appear only once all four are written; and a failed
\* run takes no further step.
C2_FixedOrder ==
    /\ IsPrefix(StepsPrinted, <<"loaded">> \o Order \o <<"summary_title", "complete">>)
    /\ \E k \in 0..Len(Order) : WrittenThisRun = Range(SubSeq(Order, 1, k))
    /\ WrittenThisRun = {stdout[i].path : i \in {j \in DOMAIN stdout : stdout[j].kind = "saved"}}
    /\ error = "FileNotFoundError" => WrittenThisRun = {}
    /\ (\E i \in DOMAIN stdout : stdout[i].kind \in {"summary_title", "complete"})
            => WrittenThisRun = Range(Order)
    /\ pc = "failed" => ~ENABLED NextOnce

\* a run that failed after writing exactly the first two images
C2_Witness ==
    /\ pc = "failed"
    /\ error = "OSError"
    /\ WrittenThisRun = Range(SubSeq(Order, 1, 2))

\* C9: whenever a run completes, plots/ holds exactly the four images, each
\* written by that run; no run ever creates a file of another name; and mkdir
\* fails a run only when plots exists as something that is not a directory.
C9_Idempotent ==
    /\ DOMAIN files \subseteq Range(Order)
    /\ pc = "done" => /\ DOMAIN files = Range(Order)
                      /\ \A p \in DOMAIN files : files[p].run = runs
    /\ error = "FileExistsError" => plotsPath = "file"

\* a second run that completed over the images of a completed first run
C9_Witness ==
    /\ runs = 2
    /\ pc = "done"
    /\ plotsPath = "dir"
    /\ \A p \in Range(Order) : p \in DOMAIN files /\ files[p].run = 2

\* the records of the loaded table with N = n, and the successful ones
Recs(n) == {i \in DOMAIN loaded.rows : loaded.rows[i].N = n}

Succ(n) == {i \in Recs(n) : loaded.rows[i].success}

\* the summary's lines for the example n
ExamplesPrinted(n) ==
    {i \in DOMAIN stdout : stdout[i].kind = "example" /\ stdout[i].N = n}

\* C7 as stated: after the summary, a line for n in {437, 551} exists iff the
\* table holds n, carries the phi and phi_divisors recorded for n, and carries
\* the success rate 100 * successes / records exactly; the summary did not fail.
C7_ExactRate ==
    SummaryDone =>
        /\ error = "none"
        /\ \A n \in Range(examples) :
            /\ Recs(n) = {} => ExamplesPrinted(n) = {}
            /\ Recs(n) # {} =>
                /\ Cardinality(ExamplesPrinted(n)) = 1
                /\ \A l \in ExamplesPrinted(n) :
                    /\ \A i \in Recs(n) :
                        /\ stdout[l].phi = loaded.rows[i].phi
                        /\ stdout[l].phi_divisors = loaded.rows[i].phi_divisors
                    /\ stdout[l].rate[2] * Cardinality(Recs(n))
                            = 100 * Cardinality(Succ(n))

\* C7 amended: as above, but the line carries the success rate rounded to the
\* nearest whole percent (it is printed with no decimals).
C7_RoundedRate ==
    SummaryDone =>
        /\ error = "none"
        /\ \A n \in Range(examples) :
            /\ Recs(n) = {} => ExamplesPrinted(n) = {}
            /\ Recs(n) # {} =>
                /\ Cardinality(ExamplesPrinted(n)) = 1
                /\ \A l \in ExamplesPrinted(n) :
                    /\ \A i \in Recs(n) :
                        /\ stdout[l].phi = loaded.rows[i].phi
                        /\ stdout[l].phi_divisors = loaded.rows[i].phi_divisors
                    /\ stdout[l].rate[1] = 0
                    /\ 2 * Abs(stdout[l].rate[2] * Cardinality(Recs(n))
                                - 100 * Cardinality(Succ(n)))
                            <= Cardinality(Recs(n))

\* a summary printed for a table that holds 437 (one success in three) and not 551
C7_Witness ==
    /\ SummaryDone
    /\ Cardinality(Recs(437)) = 3
    /\ Cardinality(Succ(437)) = 1
    /\ Recs(551) = {}
    /\ ExamplesPrinted(437) # {}

-----------------------------------------------------------------------------
(* Properties of the aggregates                                             *)

RECURSIVE SumFn(_)
SumFn(f) ==
    IF DOMAIN f = {} THEN 0
    ELSE LET x == CHOOSE y \in DOMAIN f : TRUE
         IN  f[x] + SumFn([y \in DOMAIN f \ {x} |-> f[y]])

\* the sum of F(x) over the x of a finite set S
SumOver(S, F(_)) == SumFn([x \in S |-> F(x)])

\* the entries of the drawn figure whose field holds value
Entries(field, value) == {k \in DOMAIN fig.data : fig.data[k][field] = value}

\* C3: plot_success_vs_n yields, for every N of the table, one entry whose
\* count is the number of records with that N and whose rate is 100 times the
\* successful ones among them divided by that count; the two records
\* (400, true) and (400, false) yield rate 50 and count 2.
C3_SuccessRateByN ==
    fig.op = "success_vs_n" =>
        /\ \A n \in Range(Column(loaded.rows, "N")) :
            /\ Cardinality(Entries("N", n)) = 1
            /\ \A k \in Entries("N", n) :
                /\ fig.data[k].count = Cardinality(Recs(n))
                /\ fig.data[k].success_rate[2] > 0
                /\ fig.data[k].success_rate[1] * Cardinality(Recs(n))
                        = 100 * Cardinality(Succ(n)) * fig.data[k].success_rate[2]
        /\ (/\ Len(loaded.rows) = 2
            /\ Cardinality(Recs(400)) = 2
            /\ Cardinality(Succ(400)) = 1)
                => /\ Len(fig.data) = 1
                   /\ fig.data[1].N = 400
                   /\ fig.data[1].success_rate = FromInt(50)
                   /\ fig.data[1].count = 2

\* the figure drawn for the rows (400, true, 1000 ms), (400, false, 0 ms)
C3_Witness ==
    /\ fig.op = "success_vs_n"
    /\ Len(loaded.rows) = 2
    /\ \A i \in 1..2 : loaded.rows[i].N = 400
    /\ loaded.rows[1].success /\ loaded.rows[1].time_ms = 1000
    /\ ~loaded.rows[2].success /\ loaded.rows[2].time_ms = 0
    /\ fig.data[1].success_rate = FromInt(50)

\* C4: the per-N counts of plot_success_vs_n sum to the number of records, and
\* no N has two groups: every record is counted in exactly one group.
C4_CountsSum ==
    fig.op = "success_vs_n" =>
        /\ SumOver(DOMAIN fig.data, LAMBDA k : fig.data[k].count) = Len(loaded.rows)
        /\ \A j, k \in DOMAIN fig.data : fig.data[j].N = fig.data[k].N => j = k
        /\ \A i \in DOMAIN loaded.rows : Entries("N", loaded.rows[i].N) # {}

\* three records in two groups, one of them without a success
C4_Witness ==
    /\ fig.op = "success_vs_n"
    /\ Len(loaded.rows) = 3
    /\ Len(fig.data) = 2
    /\ Succ(300) = {}
    /\ Recs(300) # {}

TimesTried == {0, 1000, 5000}

\* C5: plot_time_vs_n has an entry exactly for the N with a successful record;
\* its mean is the mean of time_ms / 1000 over the successful records of that
\* N; and whatever time_ms a failed record holds, the output is the same.
C5_FailedNeverContribute ==
    fig.op = "time_vs_n" =>
        /\ {fig.data[k].N : k \in DOMAIN fig.data}
                = {loaded.rows[i].N : i \in {j \in DOMAIN loaded.rows : loaded.rows[j].success}}
        /\ \A j, k \in DOMAIN fig.data : fig.data[j].N = fig.data[k].N => j = k
        /\ \A k \in DOMAIN fig.data :
            LET n == fig.data[k].N
            IN  /\ fig.data[k].mean_time[2] > 0
                /\ fig.data[k].mean_time[1] * 1000 * Cardinality(Succ(n))
                        = fig.data[k].mean_time[2]
                            * SumOver(Succ(n), LAMBDA i : loaded.rows[i].time_ms)
        /\ \A i \in DOMAIN loaded.rows : \A t \in TimesTried :
            ~loaded.rows[i].success
                => TimeByN([loaded EXCEPT !.rows[i].time_ms = t]) = fig.data

\* a table where 300 has only a failed record that took 1000 ms, and 400 has
\* successful records of different times next to it
C5_Witness ==
    /\ fig.op = "time_vs_n"
    /\ Recs(300) # {} /\ Succ(300) = {}
    /\ \E i \in Recs(300) : loaded.rows[i].time_ms = 1000
    /\ \E i, j \in Succ(400) : loaded.rows[i].time_ms # loaded.rows[j].time_ms
    /\ Len(fig.data) = 1

\* the five ranges as the claim gives them: (lo, hi]
RangeBounds ==
    {<<"100-300", 0, 300>>, <<"300-500", 300, 500>>, <<"500-700", 500, 700>>,
     <<"700-900", 700, 900>>, <<"900-1200", 900, 1200>>}

InRange(b) == {i \in DOMAIN loaded.rows : b[2] < loaded.rows[i].N /\ loaded.rows[i].N <= b[3]}

SuccInRange(b) == {i \in InRange(b) : loaded.rows[i].success}

\* the lines of the summary's range breakdown for a label
RangeLinesPrinted(label) ==
    {i \in DOMAIN stdout : stdout[i].kind = "range" /\ stdout[i].label = label}

\* C6: in the bar chart and in the summary's breakdown, the count of each of
\* the five ranges is the number of records with lo < N <= hi (an edge value
\* in the range it closes), a range is reported at most once, and the counts
\* sum to the number of records with 0 < N <= 1200: a record outside is in none.
C6_BinsPartition ==
    /\ fig.op = "success_by_range" =>
        /\ \A b \in RangeBounds :
            /\ Cardinality(Entries("range", b[1])) <= 1
            /\ SumOver(Entries("range", b[1]), LAMBDA k : fig.data[k].count)
                    = Cardinality(InRange(b))
        /\ SumOver(DOMAIN fig.data, LAMBDA k : fig.data[k].count)
                = Cardinality({i \in DOMAIN loaded.rows :
                                 0 < loaded.rows[i].N /\ loaded.rows[i].N <= 1200})
    /\ SummaryDone =>
        /\ \A b \in RangeBounds :
            /\ Cardinality(RangeLinesPrinted(b[1])) <= 1
            /\ SumOver(RangeLinesPrinted(b[1]), LAMBDA i : stdout[i].count)
                    = Cardinality(InRange(b))
        /\ SumOver({i \in DOMAIN stdout : stdout[i].kind = "range"},
                   LAMBDA i : stdout[i].count)
                = Cardinality({i \in DOMAIN loaded.rows :
                                 0 < loaded.rows[i].N /\ loaded.rows[i].N <= 1200})

\* a summary printed for a table with a record on an edge and one outside
C6_Witness ==
    /\ SummaryDone
    /\ \E i, j \in DOMAIN loaded.rows :
        /\ loaded.rows[i].N = 500
        /\ loaded.rows[j].N = 1201
    /\ RangeLinesPrinted("300-500") # {}
    /\ \E k \in DOMAIN fig.data : fig.data[k].range = "300-500" /\ fig.data[k].count = 1

\* C10: every bar is green iff every record of its range succeeded, orange iff
\* more than half but not all did, and red otherwise: at exactly half, at
\* none, and for a range that holds no record.
C10_BarColors ==
    fig.op = "success_by_range" =>
        \A k \in DOMAIN fig.data : \A b \in RangeBounds :
            b[1] = fig.data[k].range =>
                LET c == Cardinality(InRange(b))
                    s == Cardinality(SuccInRange(b))
                    all  == c > 0 /\ s = c
                    most == c > 0 /\ 2 * s > c /\ s < c
                IN  /\ fig.data[k].color \in {"green", "orange", "red"}
                    /\ fig.data[k].color = "green" <=> all
                    /\ fig.data[k].color = "orange" <=> most
                    /\ fig.data[k].color = "red" <=> ~all /\ ~most

\* a chart with an orange bar (two of three) and the red bar of an empty range
C10_Witness ==
    /\ fig.op = "success_by_range"
    /\ \E k \in DOMAIN fig.data :
        /\ fig.data[k].color = "orange"
        /\ fig.data[k].count = 3
    /\ \E k \in DOMAIN fig.data :
        /\ fig.data[k].color = "red"
        /\ fig.data[k].count = 0

-----------------------------------------------------------------------------
(* Properties of calls in any order                                         *)

\* the aggregate an operation draws when it is the first call after load_data
Standalone(op) ==
    IF op = "success_vs_n" THEN success_by_n(loaded)
    ELSE IF op = "success_vs_phi_divisors" THEN SuccessByPhiDivisors(loaded)
    ELSE IF op = "time_vs_n" THEN TimeByN(loaded)
    ELSE IF op = "success_by_range" THEN range_stats(AssignRange(loaded), observed)
    ELSE <<>>

\* C8: whatever calls came before it, a plotting operation draws (and saves)
\* the aggregate it draws as the first call on the loaded table, and
\* generate_summary_stats prints the text it prints as the first call.
C8_Independent ==
    /\ fig.data = Standalone(fig.op)
    /\ \A p \in DOMAIN files : files[p].fig.data = Standalone(files[p].fig.op)
    /\ (stdout # <<>> /\ stdout[1].kind = "summary_title")
            => stdout = SummaryLines(AssignRange(loaded))

\* plot_success_vs_n and the summary, each after plot_success_by_range had run
\* on a table with a record outside the ranges
C8_Witness ==
    /\ fig.op = "success_vs_n"
    /\ "plots/success_by_range.png" \in DOMAIN files
    /\ df.hasRange
    /\ Recs(1201) # {} /\ Recs(300) # {}
    /\ stdout # <<>> /\ stdout[1].kind = "saved"

=============================================================================
